---- MODULE Spec2Model ----
(***************************************************************************)
(* Model of src/main.py (Local Closed Captions).                           *)
(*                                                                         *)
(*   AudioTranscriber : running flag, worker thread(s) running             *)
(*                      _recognition_loop, the frame queue fed by the      *)
(*                      sounddevice callback.                              *)
(*   CaptionWindow    : settings, history, color_cache, the pooled labels, *)
(*                      the Tk "after" queue that carries (text, is_final) *)
(*                      from the worker to the main thread.                *)
(*                                                                         *)
(* Strings that the code takes apart (the colour "#rrggbb") are tuples of  *)
(* one-character strings; caption texts are plain strings.                 *)
(***************************************************************************)
EXTENDS Integers, Sequences, FiniteSets, TLC

(* ---- program constants ------------------------------------------------ *)
MAX_HISTORY == 10

ScreenWidth == 1920

ScreenHeight == 1080

(* ---- bounds of the model ---------------------------------------------- *)
MaxFinals == 12

MaxHello == 1

MaxThreads == 2

MaxLiveThreads == 1

MaxFrames == 2

MaxEvents == 3

VARIABLES
    \* CaptionWindow
    settings,        \* self.settings
    history,         \* self.history, index 1 = newest
    color_cache,     \* self.color_cache
    history_labels,  \* self.history_labels: text, fg, font, wraplength of each
    partial_label,   \* self.partial_label
    fullscreen,      \* root.attributes("-fullscreen")
    geometry,        \* last root.geometry(...)
    winfo_width,     \* what root.winfo_width() returns
    after_queue,     \* callbacks scheduled by root.after(0, ...), oldest first
    \* AudioTranscriber
    running,         \* self.running
    thread,          \* self.thread: 0 = None, else the thread's number
    audio_queue,     \* self.audio_queue
    pc,              \* per created thread: where it is in _recognition_loop
    data,            \* per created thread: the frame held by the loop (0 = none)
    rec,             \* per created thread: its local rec (the recognizer) is set
    model_exists,    \* os.path.exists(self.model_path)
    mainpc,          \* main thread: "idle" or "join" (inside stop()'s join)
    \* observation (history variables, never read by the program)
    last,            \* the operation that produced the current state
    finals,          \* texts of the final events processed, oldest first
    processed,       \* events the Tk loop took from the after queue, oldest first
    scen,            \* progress of the hel/hell/hello/"hello world" scenario
    scenHist,        \* the history when that scenario began
    emitted,         \* every on_text_callback call: <<thread, text, is_final>>
    fed,             \* the frames given to AcceptWaveform, in call order
    nframes          \* number of frames captured so far

captionVars == <<settings, history, color_cache, history_labels, partial_label,
                 fullscreen, geometry, winfo_width>>

workerVars == <<running, thread, audio_queue, pc, data, rec, model_exists, mainpc>>

obsCaption == <<finals, processed, scen, scenHist>>

obsWorker == <<emitted, fed, nframes>>

vars == <<captionVars, after_queue, workerVars, last, obsCaption, obsWorker>>

(* ---- colours ---------------------------------------------------------- *)
HexDigits == <<"0","1","2","3","4","5","6","7","8","9","a","b","c","d","e","f">>

UpperDigits == <<"0","1","2","3","4","5","6","7","8","9","A","B","C","D","E","F">>

\* int(c, 16) for one hex digit, either case
HexVal(c) == (CHOOSE k \in 1..16 : HexDigits[k] = c \/ UpperDigits[k] = c) - 1

\* int(s, 16) for a two-digit slice
int16(s) == 16 * HexVal(s[1]) + HexVal(s[2])

\* f"{n:02x}"
fmt02x(n) == <<HexDigits[(n \div 16) + 1], HexDigits[(n % 16) + 1]>>

\* factor = max(0.2, 1.0 - (i / (MAX_HISTORY * 1.5))), i counted from 0, as the
\* fraction factor_num(i) / factor_den = max(3N, 5(3N - 2i)) / 15N, N = MAX_HISTORY
factor_den == 15 * MAX_HISTORY

factor_num(i) ==
    LET a == 5 * (3 * MAX_HISTORY - 2 * i)
    IN IF a > 3 * MAX_HISTORY THEN a ELSE 3 * MAX_HISTORY

\* scale with the index counted from the oldest slot
scale_reversed(c, i) == (c * factor_num(MAX_HISTORY - 1 - i)) \div factor_den

\* int(c * factor)
scale(c, i) == (c * factor_num(i)) \div factor_den

_update_color_cache(base_color) ==
    IF base_color[1] # "#"
    THEN [i \in 1..MAX_HISTORY |-> base_color]
    ELSE LET r == int16(SubSeq(base_color, 2, 3))
             g == int16(SubSeq(base_color, 4, 5))
             b == int16(SubSeq(base_color, 6, 7))
         IN [i \in 1..MAX_HISTORY |->
                <<"#">> \o fmt02x(scale(r, i - 1)) \o fmt02x(scale(g, i - 1))
                        \o fmt02x(scale(b, i - 1))]

(* ---- layout ----------------------------------------------------------- *)
\* new_geometry whose floating branch narrows the window by the padding
new_geometry_shrinks(s, old) ==
    IF s.fullscreen THEN old
    ELSE IF s.position = "top"
         THEN [w |-> ScreenWidth, h |-> 250, x |-> 0, y |-> 0]
    ELSE IF s.position = "bottom"
         THEN [w |-> ScreenWidth, h |-> 250, x |-> 0, y |-> ScreenHeight - 250 - 40]
    ELSE [old EXCEPT !.w = old.w - 50]

\* new_geometry without the taskbar offset
new_geometry_no_taskbar(s, old) ==
    IF s.fullscreen THEN old
    ELSE IF s.position = "top"
         THEN [w |-> ScreenWidth, h |-> 250, x |-> 0, y |-> 0]
    ELSE IF s.position = "bottom"
         THEN [w |-> ScreenWidth, h |-> 250, x |-> 0, y |-> ScreenHeight - 250]
    ELSE old

\* the geometry _apply_visual_settings asks for (unchanged when it asks for none)
new_geometry(s, old) ==
    IF s.fullscreen THEN old
    ELSE IF s.position = "top"
         THEN [w |-> ScreenWidth, h |-> 250, x |-> 0, y |-> 0]
    ELSE IF s.position = "bottom"
         THEN [w |-> ScreenWidth, h |-> 250, x |-> 0, y |-> ScreenHeight - 250 - 40]
    ELSE old

\* window_width of _apply_visual_settings
window_width(s, cur) ==
    IF s.fullscreen \/ s.position \in {"top", "bottom"} THEN ScreenWidth
    ELSE IF cur <= 1 THEN 800 ELSE cur

(* ---- inputs ----------------------------------------------------------- *)
\* the n-th final text of the cap0, cap1, ... run
Cap(n) == "cap" \o ToString(n)

PartialTexts == {"hel", "hell", "hello"}

Hello == "hello world"

\* what the Apply button of SettingsDialog can deliver (a sample of it);
\* colorchooser.askcolor returns "#rrggbb"
DefaultSettings ==
    [font_family |-> "Helvetica", font_size |-> 24,
     text_color |-> <<"#","F","F","F","F","F","F">>,
     position |-> "floating", fullscreen |-> FALSE]

SettingsInputs ==
    { DefaultSettings,
      [font_family |-> "Arial", font_size |-> 8,
       text_color |-> <<"#","f","f","8","0","0","0">>,
       position |-> "top", fullscreen |-> FALSE] }

\* "#rrggbb" of three components
ColorOf(r, g, b) == <<"#">> \o fmt02x(r) \o fmt02x(g) \o fmt02x(b)

\* the colours the colour button can deliver (a sample in which every
\* component takes every value 0..255), and some upper-case spellings
ColorInputs ==
    {ColorOf(c, 255 - c, (7 * c) % 256) : c \in 0..255}
        \cup {DefaultSettings.text_color, <<"#","A","B","C","D","E","F">>,
              <<"#","1","2","3","4","5","6">>}

\* every dock position with and without full screen, in two font sizes
LayoutInputs ==
    {[DefaultSettings EXCEPT !.position = p, !.fullscreen = fs, !.font_size = z] :
        p \in {"floating", "top", "bottom"}, fs \in BOOLEAN, z \in {8, 24}}

(* ---- CaptionWindow ---------------------------------------------------- *)
\* _apply_visual_settings under settings s and colour table cc
_apply_visual_settings(s, cc) ==
    LET font_spec == <<s.font_family, s.font_size>>
        wrap_len == window_width(s, winfo_width) - 50
    IN /\ partial_label' = [partial_label EXCEPT !.font = font_spec,
                                !.fg = s.text_color, !.wraplength = wrap_len]
       /\ history_labels' = [i \in 1..Len(history_labels) |->
                               [history_labels[i] EXCEPT !.font = font_spec,
                                   !.fg = cc[i], !.wraplength = wrap_len]]
       /\ fullscreen' = s.fullscreen
       /\ geometry' = new_geometry(s, geometry)

\* insert_pop without the pop()
insert_no_pop(h, text) == <<text>> \o h

\* insert_pop that appends at the tail and pops the head
append_pop_head(h, text) ==
    LET app == h \o <<text>>
    IN IF Len(app) > MAX_HISTORY THEN Tail(app) ELSE app

\* insert_pop whose pop() takes the head
insert_pop_head(h, text) ==
    LET ins == <<text>> \o h
    IN IF Len(ins) > MAX_HISTORY THEN Tail(ins) ELSE ins

\* self.history.insert(0, text); pop() when longer than MAX_HISTORY
insert_pop(h, text) ==
    LET ins == <<text>> \o h
    IN IF Len(ins) > MAX_HISTORY THEN SubSeq(ins, 1, Len(ins) - 1) ELSE ins

\* clear_partial that leaves the label alone
clear_partial_skipped(lbl) == lbl

\* self.partial_label.config(text="")
clear_partial(lbl) == [lbl EXCEPT !.text = ""]

\* set_partial that only fills an empty label
set_partial_if_empty(lbl, text) ==
    [lbl EXCEPT !.text = IF lbl.text = "" THEN text ELSE lbl.text]

\* self.partial_label.config(text=text)
set_partial(lbl, text) == [lbl EXCEPT !.text = text]

\* the label loop walking the history from its oldest end
show_history_oldest_first(lbls, h) ==
    [i \in 1..Len(lbls) |->
        [lbls[i] EXCEPT !.text = IF i <= Len(h) THEN h[Len(h) + 1 - i] ELSE ""]]

\* for i, lbl in enumerate(self.history_labels):
\*     lbl.config(text=self.history[i]) if i < len(self.history), else text=""
show_history(lbls, h) ==
    [i \in 1..Len(lbls) |->
        [lbls[i] EXCEPT !.text = IF i <= Len(h) THEN h[i] ELSE ""]]

_process_text_update(text, is_final) ==
    /\ IF is_final
       THEN /\ history' = insert_pop(history, text)
            /\ history_labels' = show_history(history_labels, history')
            /\ partial_label' = clear_partial(partial_label)
       ELSE /\ partial_label' = set_partial(partial_label, text)
            /\ UNCHANGED <<history, history_labels>>
    /\ UNCHANGED <<settings, color_cache, fullscreen, geometry, winfo_width>>

\* how far the processed events match  "hel", "hell", "hello", final "hello world"
scen_next(n, text, is_final) ==
    IF ~is_final /\ text = "hel" THEN 1
    ELSE IF ~is_final /\ text = "hell" /\ n = 1 THEN 2
    ELSE IF ~is_final /\ text = "hello" /\ n = 2 THEN 3
    ELSE IF is_final /\ text = Hello /\ n = 3 THEN 4
    ELSE 0

Observe(text, is_final) ==
    /\ last' = <<IF is_final THEN "final" ELSE "partial", text>>
    /\ finals' = IF is_final THEN Append(finals, text) ELSE finals
    /\ scen' = scen_next(scen, text, is_final)
    /\ scenHist' = IF scen_next(scen, text, is_final) = 0 THEN <<>>
                   ELSE IF scen_next(scen, text, is_final) = 1 THEN history
                   ELSE scenHist

\* on_settings_changed without the call of _update_color_cache
on_settings_changed_stale_colors(new_settings) ==
    /\ mainpc = "idle"
    /\ settings' = new_settings
    /\ UNCHANGED color_cache
    /\ _apply_visual_settings(new_settings, color_cache')
    /\ last' = <<"settings", IF last[1] = "settings" /\ settings = new_settings
                              THEN "again" ELSE new_settings.position>>
    /\ UNCHANGED <<history, winfo_width, after_queue, workerVars, obsCaption, obsWorker>>

\* CaptionWindow.on_settings_changed, called by the Apply button
on_settings_changed(new_settings) ==
    /\ mainpc = "idle"
    /\ settings' = new_settings
    /\ color_cache' = _update_color_cache(new_settings.text_color)
    /\ _apply_visual_settings(new_settings, color_cache')
    /\ last' = <<"settings", IF last[1] = "settings" /\ settings = new_settings
                              THEN "again" ELSE new_settings.position>>
    /\ UNCHANGED <<history, winfo_width, after_queue, workerVars, obsCaption, obsWorker>>

\* the Tk event loop lays the window out: winfo_width follows the geometry
mainloop_redraw ==
    /\ mainpc = "idle"
    /\ winfo_width' = IF fullscreen THEN ScreenWidth ELSE geometry.w
    /\ winfo_width' # winfo_width
    /\ last' = <<"redraw", "">>
    /\ UNCHANGED <<settings, history, color_cache, history_labels, partial_label,
                   fullscreen, geometry, after_queue, workerVars, obsCaption, obsWorker>>

\* number of "hello world" finals processed
nhello == Cardinality({i \in 1..Len(finals) : finals[i] = Hello})

FinalTexts == {Cap(Len(finals))} \cup (IF nhello < MaxHello THEN {Hello} ELSE {})

\* the presentation thread runs _process_text_update for a final event
final_event ==
    /\ Len(finals) < MaxFinals
    /\ \E text \in FinalTexts :
          /\ _process_text_update(text, TRUE)
          /\ Observe(text, TRUE)
    /\ UNCHANGED <<after_queue, processed, workerVars, obsWorker>>

\* the presentation thread runs _process_text_update for a partial event
partial_event ==
    /\ \E text \in PartialTexts :
          /\ _process_text_update(text, FALSE)
          /\ Observe(text, FALSE)
    /\ UNCHANGED <<after_queue, processed, workerVars, obsWorker>>

settings_event == \E s \in SettingsInputs : on_settings_changed(s)

(* ---- initial state: after CaptionWindow.__init__ built the data state, *)
(* ---- the labels and the AudioTranscriber object ----------------------- *)
InitLabel(fg) == [text |-> "", fg |-> fg, font |-> <<"Helvetica", 24>>, wraplength |-> 750]

Init ==
    /\ settings = DefaultSettings
    /\ history = [i \in 1..MAX_HISTORY |-> ""]
    /\ color_cache = _update_color_cache(DefaultSettings.text_color)
    /\ history_labels = [i \in 1..MAX_HISTORY |-> InitLabel(color_cache[i])]
    /\ partial_label = InitLabel(DefaultSettings.text_color)
    /\ fullscreen = FALSE
    /\ geometry = [w |-> 800, h |-> 200, x |-> -1, y |-> -1]
    /\ winfo_width = 1
    /\ after_queue = <<>>
    /\ running = FALSE
    /\ thread = 0
    /\ audio_queue = <<>>
    /\ pc = <<>>
    /\ data = <<>>
    /\ rec = <<>>
    /\ model_exists \in BOOLEAN
    /\ mainpc = "idle"
    /\ last = <<"init", "">>
    /\ finals = <<>>
    /\ processed = <<>>
    /\ scen = 0
    /\ scenHist = <<>>
    /\ emitted = <<>>
    /\ fed = <<>>
    /\ nframes = 0

(* ---- the presentation thread on its own ------------------------------- *)
NextCaption ==
    \/ final_event
    \/ partial_event
    \/ settings_event
    \/ mainloop_redraw

\* the model directory plays no part on the presentation side
InitCaption == Init /\ model_exists

SpecCaption == InitCaption /\ [][NextCaption]_vars

(* ---- the colour button followed by Apply, on its own ------------------- *)
color_event ==
    \E col \in ColorInputs : on_settings_changed([settings EXCEPT !.text_color = col])

NextColor == color_event

SpecColor == InitCaption /\ [][NextColor]_vars

(* ---- the dialog's position and full-screen controls, and Tk's layout ---- *)
layout_event == \E s \in LayoutInputs : on_settings_changed(s)

NextLayout ==
    \/ layout_event
    \/ mainloop_redraw

SpecLayout == InitCaption /\ [][NextLayout]_vars

(* ---- AudioTranscriber ------------------------------------------------- *)
Threads == 1..Len(pc)

\* the thread has left _recognition_loop (returned or died by an exception)
EndedPcs == {"acq_exit", "model_error", "rec_crash", "open_error", "stream_error", "exited"}

Ended(th) == pc[th] \in EndedPcs

\* inside the "with sd.RawInputStream(...)" block
StreamOpen(th) == pc[th] \in {"loop", "get", "decode"}

\* inside a call that has no timeout: join(timeout=2.0) can expire meanwhile
Blocking(th) == pc[th] \in {"download", "load_model", "make_rec", "open_stream", "decode"}

ErrLoad == "Error loading model: e"

ErrAudio == "Audio Error: e"

\* on_text_update that runs _process_text_update on the calling thread
on_text_update_direct(th, text, is_final) ==
    /\ _process_text_update(text, is_final)
    /\ emitted' = Append(emitted, <<th, text, is_final>>)
    /\ UNCHANGED after_queue

\* CaptionWindow.on_text_update, called on the worker thread th:
\* root.after(0, self._process_text_update, text, is_final)
on_text_update(th, text, is_final) ==
    /\ after_queue' = Append(after_queue, <<text, is_final>>)
    /\ emitted' = Append(emitted, <<th, text, is_final>>)
    /\ UNCHANGED captionVars

\* a step of the worker that calls no on_text_callback
no_event == UNCHANGED <<after_queue, emitted, captionVars>>

\* start without the "if self.running: return"
start_unguarded ==
    /\ mainpc = "idle"
    /\ Len(pc) < MaxThreads
    /\ running' = TRUE
    /\ thread' = Len(pc) + 1
    /\ pc' = Append(pc, "download")
    /\ data' = Append(data, 0)
    /\ rec' = Append(rec, FALSE)
    /\ last' = <<"start", "spawn">>
    /\ UNCHANGED <<audio_queue, model_exists, mainpc>>
    /\ UNCHANGED <<captionVars, after_queue, obsCaption, obsWorker>>

start ==
    /\ mainpc = "idle"
    /\ IF running
       THEN /\ last' = <<"start", "noop">>
            /\ UNCHANGED workerVars
       ELSE /\ Len(pc) < MaxThreads
            /\ running' = TRUE
            /\ thread' = Len(pc) + 1
            /\ pc' = Append(pc, "download")
            /\ data' = Append(data, 0)
            /\ rec' = Append(rec, FALSE)
            /\ last' = <<"start", "spawn">>
            /\ UNCHANGED <<audio_queue, model_exists, mainpc>>
    /\ UNCHANGED <<captionVars, after_queue, obsCaption, obsWorker>>

\* stop without the "if self.thread:": None.join raises
stop_unguarded ==
    /\ mainpc = "idle"
    /\ running' = FALSE
    /\ IF thread = 0
       THEN mainpc' = "idle" /\ last' = <<"stop", "raised">>
       ELSE IF ~Ended(thread)
       THEN mainpc' = "join" /\ last' = <<"stop", "joining">>
       ELSE mainpc' = "idle" /\ last' = <<"stop", "returned">>
    /\ UNCHANGED <<thread, audio_queue, pc, data, rec, model_exists>>
    /\ UNCHANGED <<captionVars, after_queue, obsCaption, obsWorker>>

\* stop that forgets an ended thread (self.thread = None)
stop_clears_thread ==
    /\ mainpc = "idle"
    /\ running' = FALSE
    /\ IF thread # 0 /\ ~Ended(thread)
       THEN mainpc' = "join" /\ last' = <<"stop", "joining">> /\ UNCHANGED thread
       ELSE mainpc' = "idle" /\ last' = <<"stop", "returned">> /\ thread' = 0
    /\ UNCHANGED <<audio_queue, pc, data, rec, model_exists>>
    /\ UNCHANGED <<captionVars, after_queue, obsCaption, obsWorker>>

\* stop() up to the point where join() blocks; join() of an ended thread
\* returns at once
stop ==
    /\ mainpc = "idle"
    /\ running' = FALSE
    /\ IF thread # 0 /\ ~Ended(thread)
       THEN mainpc' = "join" /\ last' = <<"stop", "joining">>
       ELSE mainpc' = "idle" /\ last' = <<"stop", "returned">>
    /\ UNCHANGED <<thread, audio_queue, pc, data, rec, model_exists>>
    /\ UNCHANGED <<captionVars, after_queue, obsCaption, obsWorker>>

\* join(timeout=2.0) returns: the thread ended, or the timeout expired
join_return ==
    /\ mainpc = "join"
    /\ Ended(thread) \/ Blocking(thread)
    /\ mainpc' = "idle"
    /\ last' = <<"join", IF Ended(thread) THEN "joined" ELSE "timeout">>
    /\ UNCHANGED <<running, thread, audio_queue, pc, data, rec, model_exists>>
    /\ UNCHANGED <<captionVars, after_queue, obsCaption, obsWorker>>

\* _audio_callback of an open stream
_audio_callback ==
    /\ \E th \in Threads : StreamOpen(th)
    /\ nframes < MaxFrames
    /\ nframes' = nframes + 1
    /\ audio_queue' = Append(audio_queue, nframes + 1)
    /\ last' = <<"callback", "">>
    /\ UNCHANGED <<running, thread, pc, data, rec, model_exists, mainpc>>
    /\ UNCHANGED <<captionVars, after_queue, obsCaption, emitted, fed>>

\* _download_model
_download_model(th) ==
    /\ pc[th] = "download"
    /\ \/ /\ model_exists
          /\ pc' = [pc EXCEPT ![th] = "load_model"]
          /\ UNCHANGED model_exists
       \/ /\ ~model_exists
          /\ model_exists' = TRUE
          /\ pc' = [pc EXCEPT ![th] = "load_model"]
       \/ /\ ~model_exists          \* except Exception: sys.exit(1)
          /\ pc' = [pc EXCEPT ![th] = "acq_exit"]
          /\ UNCHANGED model_exists
    /\ no_event
    /\ last' = <<"worker", "">>
    /\ UNCHANGED <<running, thread, audio_queue, data, rec, mainpc>>
    /\ UNCHANGED <<obsCaption, nframes, fed>>

\* model = vosk.Model(self.model_path)
load_model(th) ==
    /\ pc[th] = "load_model"
    /\ \/ /\ pc' = [pc EXCEPT ![th] = "make_rec"]
          /\ no_event
       \/ /\ Len(emitted) < MaxEvents
          /\ on_text_update(th, ErrLoad, TRUE)
          /\ pc' = [pc EXCEPT ![th] = "model_error"]
    /\ last' = <<"worker", "">>
    /\ UNCHANGED <<running, thread, audio_queue, data, rec, model_exists, mainpc>>
    /\ UNCHANGED <<obsCaption, nframes, fed>>

\* make_rec that leaves the recognizer for later and goes on to the stream
make_rec_deferred(th) ==
    /\ pc[th] = "make_rec"
    /\ pc' = [pc EXCEPT ![th] = "open_stream"]
    /\ no_event
    /\ last' = <<"worker", "">>
    /\ UNCHANGED <<running, thread, audio_queue, data, rec, model_exists, mainpc>>
    /\ UNCHANGED <<obsCaption, nframes, fed>>

\* rec = vosk.KaldiRecognizer(model, SAMPLE_RATE), outside every try
make_rec(th) ==
    /\ pc[th] = "make_rec"
    /\ \/ /\ pc' = [pc EXCEPT ![th] = "open_stream"]
          /\ rec' = [rec EXCEPT ![th] = TRUE]
       \/ /\ pc' = [pc EXCEPT ![th] = "rec_crash"]
          /\ UNCHANGED rec
    /\ no_event
    /\ last' = <<"worker", "">>
    /\ UNCHANGED <<running, thread, audio_queue, data, model_exists, mainpc>>
    /\ UNCHANGED <<obsCaption, nframes, fed>>

\* with sd.RawInputStream(...)
open_stream(th) ==
    /\ pc[th] = "open_stream"
    /\ \/ /\ pc' = [pc EXCEPT ![th] = "loop"]
          /\ no_event
       \/ /\ Len(emitted) < MaxEvents
          /\ on_text_update(th, ErrAudio, TRUE)
          /\ pc' = [pc EXCEPT ![th] = "open_error"]
    /\ last' = <<"worker", "">>
    /\ UNCHANGED <<running, thread, audio_queue, data, rec, model_exists, mainpc>>
    /\ UNCHANGED <<obsCaption, nframes, fed>>

\* while self.running:
loop_check(th) ==
    /\ pc[th] = "loop"
    /\ pc' = [pc EXCEPT ![th] = IF running THEN "get" ELSE "exited"]
    /\ no_event
    /\ last' = <<"worker", "">>
    /\ UNCHANGED <<running, thread, audio_queue, data, rec, model_exists, mainpc>>
    /\ UNCHANGED <<obsCaption, nframes, fed>>

\* queue_get with get() and no timeout: waits until a frame is there
queue_get_no_timeout(th) ==
    /\ pc[th] = "get"
    /\ audio_queue # <<>>
    /\ data' = [data EXCEPT ![th] = Head(audio_queue)]
    /\ audio_queue' = Tail(audio_queue)
    /\ pc' = [pc EXCEPT ![th] = "decode"]
    /\ no_event
    /\ last' = <<"worker", "">>
    /\ UNCHANGED <<running, thread, rec, model_exists, mainpc>>
    /\ UNCHANGED <<obsCaption, nframes, fed>>

\* data = self.audio_queue.get(timeout=1.0); queue.Empty: continue
queue_get(th) ==
    /\ pc[th] = "get"
    /\ IF audio_queue # <<>>
       THEN /\ data' = [data EXCEPT ![th] = Head(audio_queue)]
            /\ audio_queue' = Tail(audio_queue)
            /\ pc' = [pc EXCEPT ![th] = "decode"]
       ELSE /\ pc' = [pc EXCEPT ![th] = "loop"]
            /\ UNCHANGED <<data, audio_queue>>
    /\ no_event
    /\ last' = <<"worker", "">>
    /\ UNCHANGED <<running, thread, rec, model_exists, mainpc>>
    /\ UNCHANGED <<obsCaption, nframes, fed>>

\* rec.AcceptWaveform(data) and the Result()/PartialResult() that follows
decode(th) ==
    /\ pc[th] = "decode"
    /\ fed' = Append(fed, data[th])
    /\ data' = [data EXCEPT ![th] = 0]
    /\ \/ /\ no_event                                     \* empty text
          /\ pc' = [pc EXCEPT ![th] = "loop"]
       \/ /\ Len(emitted) < MaxEvents                     \* final result
          /\ on_text_update(th, Cap(Len(emitted)), TRUE)
          /\ pc' = [pc EXCEPT ![th] = "loop"]
       \/ /\ Len(emitted) < MaxEvents                     \* partial result
          /\ on_text_update(th, "hel", FALSE)
          /\ pc' = [pc EXCEPT ![th] = "loop"]
       \/ /\ Len(emitted) < MaxEvents                     \* an exception
          /\ on_text_update(th, ErrAudio, TRUE)
          /\ pc' = [pc EXCEPT ![th] = "stream_error"]
    /\ last' = <<"worker", "">>
    /\ UNCHANGED <<running, thread, audio_queue, rec, model_exists, mainpc>>
    /\ UNCHANGED <<obsCaption, nframes>>

\* one step of thread th through _recognition_loop
_recognition_loop(th) ==
    \/ _download_model(th)
    \/ load_model(th)
    \/ make_rec(th)
    \/ open_stream(th)
    \/ loop_check(th)
    \/ queue_get(th)
    \/ decode(th)

\* an event loop that runs the newest scheduled callback first
after_callback_newest ==
    /\ mainpc = "idle"
    /\ after_queue # <<>>
    /\ _process_text_update(after_queue[Len(after_queue)][1], after_queue[Len(after_queue)][2])
    /\ Observe(after_queue[Len(after_queue)][1], after_queue[Len(after_queue)][2])
    /\ processed' = Append(processed, after_queue[Len(after_queue)])
    /\ after_queue' = SubSeq(after_queue, 1, Len(after_queue) - 1)
    /\ UNCHANGED <<workerVars, obsWorker>>

\* the Tk event loop runs the oldest scheduled _process_text_update
after_callback ==
    /\ mainpc = "idle"
    /\ after_queue # <<>>
    /\ _process_text_update(Head(after_queue)[1], Head(after_queue)[2])
    /\ Observe(Head(after_queue)[1], Head(after_queue)[2])
    /\ processed' = Append(processed, Head(after_queue))
    /\ after_queue' = Tail(after_queue)
    /\ UNCHANGED <<workerVars, obsWorker>>

Next ==
    \/ start
    \/ stop
    \/ join_return
    \/ _audio_callback
    \/ \E th \in Threads : _download_model(th)
    \/ \E th \in Threads : load_model(th)
    \/ \E th \in Threads : make_rec(th)
    \/ \E th \in Threads : open_stream(th)
    \/ \E th \in Threads : loop_check(th)
    \/ \E th \in Threads : queue_get(th)
    \/ \E th \in Threads : decode(th)
    \/ after_callback

Spec == Init /\ [][Next]_vars

(* ---- the AudioTranscriber on its own: events pile up in the after queue *)
NextWorker ==
    \/ start
    \/ stop
    \/ join_return
    \/ _audio_callback
    \/ \E th \in Threads : _download_model(th)
    \/ \E th \in Threads : load_model(th)
    \/ \E th \in Threads : make_rec(th)
    \/ \E th \in Threads : open_stream(th)
    \/ \E th \in Threads : loop_check(th)
    \/ \E th \in Threads : queue_get(th)
    \/ \E th \in Threads : decode(th)

SpecWorker == Init /\ [][NextWorker]_vars

(* ---- the same with every created thread scheduled fairly; the number --- *)
(* ---- of threads is kept to MaxLiveThreads ------------------------------ *)
live_start == start /\ Len(pc') <= MaxLiveThreads

NextLive ==
    \/ live_start
    \/ stop
    \/ join_return
    \/ _audio_callback
    \/ \E th \in Threads : _download_model(th)
    \/ \E th \in Threads : load_model(th)
    \/ \E th \in Threads : make_rec(th)
    \/ \E th \in Threads : open_stream(th)
    \/ \E th \in Threads : loop_check(th)
    \/ \E th \in Threads : queue_get(th)
    \/ \E th \in Threads : decode(th)

SpecLive ==
    /\ Init
    /\ [][NextLive]_vars
    /\ \A th \in 1..MaxLiveThreads : WF_vars(th \in Threads /\ _recognition_loop(th))

(* ---- the worker and the presentation thread together: what the worker - *)
(* ---- schedules with root.after is run by the Tk event loop ------------- *)
NextPipeline ==
    \/ live_start
    \/ stop
    \/ join_return
    \/ _audio_callback
    \/ \E th \in Threads : _download_model(th)
    \/ \E th \in Threads : load_model(th)
    \/ \E th \in Threads : make_rec(th)
    \/ \E th \in Threads : open_stream(th)
    \/ \E th \in Threads : loop_check(th)
    \/ \E th \in Threads : queue_get(th)
    \/ \E th \in Threads : decode(th)
    \/ after_callback

SpecPipeline == Init /\ [][NextPipeline]_vars

(* ---- the worker's lifecycle state (section 4.3 of the design) --------- *)
ModelFailPcs == {"acq_exit", "model_error", "rec_crash"}

\* the audio part failed: RawInputStream raised, or the loop body did
StreamFailPcs == {"open_error", "stream_error"}

FailPcs == ModelFailPcs \cup StreamFailPcs

\* places of a thread that has not entered the "with sd.RawInputStream" block
NoStreamPcs ==
    {"download", "load_model", "make_rec", "open_stream"} \cup ModelFailPcs \cup {"open_error"}

WorkerState ==
    IF thread = 0 THEN "Stopped"
    ELSE IF pc[thread] \in ModelFailPcs THEN "ModelError"
    ELSE IF pc[thread] \in StreamFailPcs THEN "StreamError"
    ELSE IF pc[thread] = "exited" THEN "Stopped"
    ELSE IF ~running THEN "Stopping"
    ELSE IF StreamOpen(thread) THEN "Listening"
    ELSE "Starting"

ErrorStates == {"ModelError", "StreamError"}

\* number of events in the log e that thread th emitted
EventsBy(e, th) == Cardinality({i \in 1..Len(e) : e[i][1] = th})

\* number of final events carrying an error message that thread th emitted
ErrorEventsBy(e, th) ==
    Cardinality({i \in 1..Len(e) :
                   e[i][1] = th /\ e[i][3] /\ e[i][2] \in {ErrLoad, ErrAudio}})

Min(a, b) == IF a < b THEN a ELSE b

(* ======================================================================= *)
(* Properties                                                              *)
(* ======================================================================= *)

\* C1: in every reachable state the caption history holds at most
\* MAX_HISTORY entries.
C1_HistoryBounded == Len(history) <= MAX_HISTORY

\* more finals than MAX_HISTORY were processed and settings changed meanwhile
C1_Witness ==
    /\ Len(finals) > MAX_HISTORY
    /\ settings # DefaultSettings
    /\ last[1] = "final"

\* The last Min(k, MAX_HISTORY) final texts, newest first.
LastFinalsReversed ==
    [i \in 1..Min(Len(finals), MAX_HISTORY) |-> finals[Len(finals) - i + 1]]

\* C2 as stated: after k final events the history is exactly the last
\* min(k,10) texts, newest first, and contains nothing else.
C2_Original == history = LastFinalsReversed

\* C2 (amended): after k final events the history is the last min(k,10) texts,
\* newest first, followed by 10 - min(k,10) empty strings.
C2_HistoryIsLastFinalsPadded ==
    history = LastFinalsReversed \o
              [i \in 1..(MAX_HISTORY - Min(Len(finals), MAX_HISTORY)) |-> ""]

\* both a partly filled history and an eviction
C2_Witness ==
    \/ Len(finals) = 3 /\ history[4] = "" /\ history[3] = finals[1]
    \/ Len(finals) = MAX_HISTORY + 2

\* The run cap0 .. cap11 and the history it must leave.
CapRun == [i \in 1..12 |-> Cap(i - 1)]

CapRunHistory == [i \in 1..10 |-> Cap(12 - i)]

\* C3: a final event with text t puts t at index 0, moves the entry at index i
\* to index i+1 and drops only the last entry when the length would exceed
\* MAX_HISTORY; after the finals cap0..cap11 the history is cap11..cap2.
C3_PushFinalShifts ==
    [][Len(finals') = Len(finals) + 1 =>
         /\ history'[1] = finals'[Len(finals')]
         /\ Len(history') = Min(Len(history) + 1, MAX_HISTORY)
         /\ \A i \in 1..(Len(history') - 1) : history'[i + 1] = history[i]
         /\ (finals' = CapRun => history' = CapRunHistory)]_vars

C3_Witness == finals = CapRun /\ history = CapRunHistory /\ last[1] = "final"

\* C4 as stated: after hel, hell, hello, final "hello world" the partial slot
\* is empty, history slot 0 is "hello world" and every other history slot
\* holds the text it held before; the partial slot is empty after every final.
C4_Original ==
    /\ scen = 4 =>
         /\ partial_label.text = ""
         /\ history[1] = Hello
         /\ \A i \in 2..Len(history) : history[i] = scenHist[i]
    /\ last[1] = "final" => partial_label.text = ""

\* C4 (amended): after hel, hell, hello, final "hello world" the partial slot
\* is empty, history slot 0 is "hello world" and every other slot i+1 holds
\* the text slot i held before the scenario; the partial slot is empty after
\* every final event.
C4_ScenarioShiftsHistory ==
    /\ scen = 4 =>
         /\ partial_label.text = ""
         /\ history[1] = Hello
         /\ \A i \in 2..Len(history) : history[i] = scenHist[i - 1]
    /\ last[1] = "final" => partial_label.text = ""

\* the scenario ran on a history that already held a caption
C4_Witness == scen = 4 /\ scenHist[1] # "" /\ scenHist[1] # scenHist[2]

\* C5: a partial event sets the partial slot to exactly its text and leaves
\* the history, the history labels, the settings and the colour table alone.
C5_PartialOnlySetsPartial ==
    [][last'[1] = "partial" =>
         /\ partial_label'.text = last'[2]
         /\ UNCHANGED <<history, history_labels, settings, color_cache>>]_vars

\* "hell" replaced "hel" while the history held captions
C5_Witness ==
    /\ last = <<"partial", "hell">>
    /\ scen = 2
    /\ partial_label.text = "hell"
    /\ finals # <<>>

\* C6: start() while the running flag is set creates no thread and changes
\* neither the flag, the thread handle nor the frame queue.
C6_StartIdempotent ==
    [][(running /\ last'[1] = "start") =>
         UNCHANGED <<running, thread, audio_queue, pc, data>>]_vars

\* start() was called on a worker that is starting up or listening
C6_Witness ==
    /\ last = <<"start", "noop">>
    /\ WorkerState \in {"Starting", "Listening"}

\* C7: once the running flag is false, every worker thread ends (and with it
\* its audio stream is closed) unless start() sets the flag again.
C7_StopIsLive ==
    \A th \in 1..MaxLiveThreads :
        (th \in Threads /\ ~running)
            ~> (running \/ (th \in Threads /\ Ended(th) /\ ~StreamOpen(th)))

\* the loop left on the stop signal although no frame ever arrived
C7_Witness ==
    /\ ~running
    /\ nframes = 0
    /\ \E th \in Threads : pc[th] = "exited"

\* C8: stop() on a worker that never started successfully (no thread, or a
\* thread that ended in a failure) returns without raising, running is false.
C8_StopNeverStarted ==
    (last[1] = "stop" /\ (thread = 0 \/ pc[thread] \in FailPcs)) =>
        (last[2] = "returned" /\ ~running /\ mainpc = "idle")

\* stop() after the worker thread died during start-up
C8_Witness ==
    /\ last = <<"stop", "returned">>
    /\ thread # 0
    /\ pc[thread] \in FailPcs

\* stop() before any start()
C8_WitnessNoThread == last = <<"stop", "returned">> /\ thread = 0 /\ pc = <<>>

\* C9: every worker thread that ended in a failure has emitted exactly one
\* final event carrying an error message.
C9_EveryFailureSurfaced ==
    \A th \in Threads : pc[th] \in FailPcs => ErrorEventsBy(emitted, th) = 1

\* C10 as stated: once in ModelError or StreamError the worker stays there
\* whatever start()/stop() calls follow, and no further event is produced.
C10_Original ==
    [][(WorkerState \in ErrorStates) =>
         (WorkerState' = WorkerState /\ emitted' = emitted)]_vars

\* C10 (amended): a worker thread that ended in a failure stays ended and
\* emits nothing more; the worker leaves the error state only by a start()
\* that finds the running flag cleared by stop().
C10_ErrorUntilRestart ==
    [][(\A th \in Threads :
            pc[th] \in FailPcs =>
                (pc'[th] = pc[th] /\ EventsBy(emitted', th) = EventsBy(emitted, th)))
       /\ ((WorkerState \in ErrorStates /\ WorkerState' # WorkerState) =>
            (~running /\ last' = <<"start", "spawn">>))]_vars

\* start() was a no-op in the error state; later stop() and start() left it
C10_Witness ==
    \/ WorkerState \in ErrorStates /\ last = <<"start", "noop">>
    \/ Len(pc) = 2 /\ pc[1] \in FailPcs /\ thread = 2 /\ last = <<"start", "spawn">>

\* the events the worker handed to on_text_update, as the Tk loop gets them
EmittedEvents == [i \in 1..Len(emitted) |-> <<emitted[i][2], emitted[i][3]>>]

\* C11: delivery from the worker to the presentation thread is first-in
\* first-out: the events already processed, followed by the events still
\* scheduled, are exactly the emitted events in emission order, so every
\* event is processed once, none is merged with another and none overtakes
\* another, whatever the interleaving of worker and event loop.
C11_DeliveryIsFifo == processed \o after_queue = EmittedEvents

C11_Witness ==
    /\ Len(processed) >= 1
    /\ after_queue # <<>>
    /\ processed[1] # after_queue[1]
    /\ last[1] \in {"final", "partial"}

\* C12: every frame the capture callback enqueued is given to the decoding
\* engine once and in capture order: the frames fed so far are frames
\* 1, 2, ..., k in that order, with none repeated, skipped or overtaken,
\* whatever callbacks, loop iterations, start() and stop() calls happened.
C12_FramesFedInOrder == fed = [i \in 1..Len(fed) |-> i]

\* C13: the caption history, the partial slot, the settings and the colour
\* table are changed only by steps of the presentation thread (a processed
\* final or partial event, a settings change); a step of the worker thread
\* or of the capture callback leaves all four, the labels and the window
\* alone, and all it does to the presentation side is append one event to
\* the after queue, or nothing.
C13_OnlyPresentationMutates ==
    [][ /\ (<<history, partial_label, settings, color_cache>>' #
                <<history, partial_label, settings, color_cache>>)
            => (last'[1] \in {"final", "partial", "settings"})
        /\ (last'[1] \in {"worker", "callback"})
            => ( /\ UNCHANGED captionVars
                 /\ \/ UNCHANGED after_queue
                    \/ /\ Len(emitted') = Len(emitted) + 1
                       /\ after_queue' = Append(after_queue,
                              <<emitted'[Len(emitted')][2], emitted'[Len(emitted')][3]>>) )
      ]_vars

C13_Witness ==
    /\ last[1] = "worker"
    /\ after_queue # <<>>
    /\ processed # <<>>
    /\ history[1] = processed[1][1]

\* component k (1 = red, 2 = green, 3 = blue) of a "#rrggbb" colour
Comp(col, k) == int16(SubSeq(col, 2 * k, 2 * k + 1))

\* C14: for every hex base colour the colour table has exactly MAX_HISTORY
\* entries; the brightness factors are non-increasing in the slot index, lie
\* in [0.2, 1.0] and the factor of slot 0 is exactly 1, so slot 0 has the
\* components of the base colour and no component of slot i+1 exceeds the
\* same component of slot i.
C14_FadeTable ==
    /\ Len(color_cache) = MAX_HISTORY
    /\ factor_num(0) = factor_den
    /\ \A i \in 0..(MAX_HISTORY - 1) :
          /\ 5 * factor_num(i) >= factor_den
          /\ factor_num(i) <= factor_den
          /\ (i > 0) => (factor_num(i) <= factor_num(i - 1))
    /\ \A i \in 1..MAX_HISTORY : Len(color_cache[i]) = 7 /\ color_cache[i][1] = "#"
    /\ \A k \in 1..3 :
          /\ Comp(color_cache[1], k) = Comp(settings.text_color, k)
          /\ \A i \in 1..(MAX_HISTORY - 1) :
                Comp(color_cache[i + 1], k) <= Comp(color_cache[i], k)

C14_Witness ==
    /\ last[1] = "settings"
    /\ Comp(settings.text_color, 1) = 200
    /\ Comp(color_cache[MAX_HISTORY], 1) < Comp(color_cache[1], 1)
    /\ Comp(color_cache[MAX_HISTORY], 2) > 0

\* C15: settings changes are idempotent: when on_settings_changed(s) runs a
\* second time in a row with the same s, it leaves the colour table, the
\* geometry, the full-screen state and the wrap width of every label as the
\* first call left them.
C15_SettingsIdempotent ==
    [][ (last' = <<"settings", "again">>)
            => ( /\ UNCHANGED <<color_cache, geometry, fullscreen>>
                 /\ partial_label'.wraplength = partial_label.wraplength
                 /\ \A i \in 1..MAX_HISTORY :
                       history_labels'[i].wraplength = history_labels[i].wraplength )
      ]_vars

C15_Witness ==
    /\ last = <<"settings", "again">>
    /\ settings.position = "floating"
    /\ ~fullscreen
    /\ winfo_width = ScreenWidth
    /\ geometry.w = ScreenWidth

\* C16: with full screen off, position "top" gives the window geometry
\* x 0, y 0, width W, height 250 and position "bottom" gives x 0,
\* y H - 250 - 40, width W, height 250 on a screen of W by H; on the
\* 1920 by 1080 screen these are 1920x250+0+0 and 1920x250+0+790.
C16_DockGeometry ==
    /\ (~settings.fullscreen /\ settings.position = "top")
            => ( /\ geometry = [x |-> 0, y |-> 0, w |-> ScreenWidth, h |-> 250]
                 /\ geometry = [x |-> 0, y |-> 0, w |-> 1920, h |-> 250] )
    /\ (~settings.fullscreen /\ settings.position = "bottom")
            => ( /\ geometry = [x |-> 0, y |-> ScreenHeight - 250 - 40,
                                w |-> ScreenWidth, h |-> 250]
                 /\ geometry = [x |-> 0, y |-> 790, w |-> 1920, h |-> 250] )

C16_Witness ==
    /\ last = <<"settings", "bottom">>
    /\ ~fullscreen
    /\ geometry.y = 790

\* C17: in every state the colour table is the fade table of the current
\* text colour, and no step other than a settings change modifies it.
C17_ColorCacheFollowsSettings ==
    /\ [](color_cache = _update_color_cache(settings.text_color))
    /\ [][ (color_cache' # color_cache)
              => (last'[1] = "settings" /\ settings'.text_color # settings.text_color)
        ]_vars

C17_Witness ==
    /\ last[1] = "final"
    /\ settings.text_color # DefaultSettings.text_color
    /\ color_cache[1] = <<"#","f","f","8","0","0","0">>
    /\ color_cache[MAX_HISTORY] # color_cache[1]
    /\ history[2] # ""

\* C20: after every presentation event the history labels mirror the
\* history: label i shows history[i] when the history has an entry i and
\* the empty string otherwise, so the first label shows the most recent
\* final caption.
C20_LabelsMirrorHistory ==
    /\ Len(history_labels) = MAX_HISTORY
    /\ \A i \in 1..MAX_HISTORY :
          history_labels[i].text = IF i <= Len(history) THEN history[i] ELSE ""
    /\ (finals # <<>>) => (history_labels[1].text = finals[Len(finals)])

C20_Witness ==
    /\ Len(finals) >= 3
    /\ last[1] = "partial"
    /\ history_labels[1].text = finals[Len(finals)]
    /\ history_labels[3].text = finals[Len(finals) - 2]
    /\ history_labels[1].text # history_labels[3].text
    /\ partial_label.text # ""

\* C18: start-up is ordered in every run of the worker: the recognizer is
\* built before the audio device is opened, and the device is open before
\* any frame is enqueued or decoded.  While no run has opened its device
\* (each is still starting, or failed to load the model or to open the
\* device) no frame has been enqueued or decoded; a run that failed takes no
\* further step, and a new run begins only with start().
C18_StartupOrdered ==
    /\ [](\A th \in Threads :
             /\ (pc[th] \in {"open_stream", "loop", "get", "decode"}) => rec[th]
             /\ (pc[th] \in ModelFailPcs) => ~rec[th]
             /\ (data[th] # 0) => (StreamOpen(th) /\ rec[th]))
    /\ []((\A th \in Threads : pc[th] \in NoStreamPcs)
             => (nframes = 0 /\ audio_queue = <<>> /\ fed = <<>>))
    /\ [][
          /\ \A th \in Threads : ((pc[th] \in FailPcs) => (pc'[th] = pc[th]))
          /\ ((Len(pc') # Len(pc)) => (last' = <<"start", "spawn">>))
          /\ ((nframes' # nframes) => (\E th \in Threads : StreamOpen(th) /\ rec[th]))
          /\ ((fed' # fed) => (\E th \in Threads :
                                  /\ StreamOpen(th) /\ rec[th]
                                  /\ fed' = Append(fed, data[th])))
       ]_vars

C18_Witness ==
    /\ Len(pc) = 2
    /\ pc[1] = "open_error"
    /\ rec[1]
    /\ pc[2] = "loop"
    /\ fed = <<1>>
    /\ nframes = 1

\* the threads still inside _recognition_loop
AliveThreads == {th \in Threads : ~Ended(th)}

\* C19: in every reachable state at most one recognition-loop thread is
\* alive, also after a stop() whose join timed out while the worker was
\* loading the model or decoding and a start() that followed it.
C19_AtMostOneLoopThread == Cardinality(AliveThreads) <= 1

====
